---- MODULE Spec2Model ----
(***************************************************************************)
(* State-machine model of the document view page                           *)
(* (src/app/pages/documents/view.js): the Document component, its          *)
(* redaction callbacks, the raster export downloadRedacted and the         *)
(* useFetchDocument hook, together with the part of the redux store the    *)
(* component reads and writes.                                             *)
(*                                                                         *)
(* Bounding-box fields are fractions of the page; the model keeps them as  *)
(* integer numbers of tenths (Left = 1 is 0.1), and pixel positions of     *)
(* fill rectangles as integer numbers of tenths of a pixel, so that all    *)
(* arithmetic of the export is exact.                                      *)
(***************************************************************************)
EXTENDS Integers, Sequences, FiniteSets, Bags, TLC

(* ------------------------------ bounds -------------------------------- *)
\* longest list of redaction boxes kept for one page
MaxReds == 2
\* number of fetchDocument calls in flight at once
MaxPending == 2
\* number of canvas.toBlob callbacks not yet run
MaxBlobs == 1

(* ----------------------- documents in the store ----------------------- *)
Docs == {"A", "B"}

BoxA == [Left |-> 1, Top |-> 1, Width |-> 2, Height |-> 1]
BoxB == [Left |-> 5, Top |-> 2, Width |-> 3, Height |-> 4]
BoxC == [Left |-> 0, Top |-> 6, Width |-> 10, Height |-> 3]
\* the boxes the user redacts one at a time from the key-value list
Boxes == {BoxA, BoxB}

\* undefined, the value read for a page key absent from document.redactions; an
\* entry that exists is [has |-> TRUE, boxes |-> its boxes], also when it is empty
Absent == [has |-> FALSE, boxes |-> << >>]

\* the extraction result of each document, present in the store once fetched
TextractResponse(d) ==
  IF d = "A"
  THEN [pages |-> 2,
        pairs |-> << [id |-> "k1", pageNumber |-> 1, keyBoundingBox |-> BoxC, valueBoundingBox |-> BoxA],
                     [id |-> "k2", pageNumber |-> 2, keyBoundingBox |-> BoxA, valueBoundingBox |-> BoxC],
                     [id |-> "k3", pageNumber |-> 1, keyBoundingBox |-> BoxC, valueBoundingBox |-> BoxB] >>,
        words |-> << [pageNumber |-> 1, text |-> "foo", box |-> BoxA],
                     [pageNumber |-> 2, text |-> "foo", box |-> BoxC],
                     [pageNumber |-> 1, text |-> "bar", box |-> BoxC],
                     [pageNumber |-> 1, text |-> "foo", box |-> BoxB] >>]
  ELSE [pages |-> 1,
        pairs |-> << >>,
        words |-> << [pageNumber |-> 1, text |-> "bar", box |-> BoxB] >>]

\* document.objectName, as a sequence of path characters and name parts; has
\* is FALSE for a document without the property (undefined)
ObjectName(d) ==
  IF d = "A" THEN [has |-> TRUE, name |-> << "public", "/", "scan", ".", "v2", ".", "pdf" >>]
             ELSE [has |-> TRUE, name |-> << "notes" >>]

Queries == {"", "foo", "bar"}
Tracks == {"search", "redaction"}

\* the page surfaces the viewer renders: a loaded <img> scaled down on screen and
\* a <canvas>, whose naturalWidth / naturalHeight are undefined (falsy, written 0)
Surfaces ==
  { [tag |-> "img", naturalWidth |-> 800, naturalHeight |-> 600, width |-> 400, height |-> 300],
    [tag |-> "canvas", naturalWidth |-> 0, naturalHeight |-> 0, width |-> 30, height |-> 40] }

(* ------------------------------- state -------------------------------- *)
VARIABLES
  views,              \* per instance of the view: its isMounted ref and its status state
  id,                 \* the id prop (query parameter) of the view
  inStore,            \* store: document d has an entry (getDocumentById gives an object)
  fetched,            \* store: document d has its textractResponse
  redactions,         \* store: document d -> page -> entry with its boxes, or Absent
  clearForm,          \* store: what its clearRedactions reducer leaves of a document's entries
  currentPageNumber,  \* store: meta.currentPageNumber
  searchQuery,        \* store: meta.searchQuery
  track,              \* store: ui.selectedTrack
  pending,            \* fetchDocument promises not yet settled: bag of [inst, id]
  blobTasks,          \* canvas.toBlob callbacks not yet run: bag of filled canvases
  lastOp              \* the last operation, its arguments, the redactions before it, its output

vars == << views, id, inStore, fetched, redactions, clearForm, currentPageNumber, searchQuery, track, pending,
          blobTasks, lastOp >>

(* ------------------------ sequence helpers ---------------------------- *)
Last(s) == s[Len(s)]

\* a || b of JavaScript for numbers
OrElse(a, b) == IF a = 0 THEN b ELSE a

(* ------------------ store selectors and utils/document ---------------- *)
AllPages == UNION { 1 .. TextractResponse(d).pages : d \in Docs }

\* a document on which no redaction was made: the entry of a page is created
\* on the first redaction for that page
NoRedactions == [p \in AllPages |-> Absent]

\* What the clearRedactions reducer of the store may leave of a document: no
\* entry at all, or the entries it had, each emptied. Either way no page holds
\* a box.
ClearForms == {"removed", "emptied"}

\* Object.keys(document.redactions)
RedactionKeys(reds) == { p \in AllPages : reds[p].has }

\* a read of the RedactionSet of a page, (document.redactions || {})[page]: the
\* entry of the page, or undefined (Absent) when the page has none
ReadRedactions(reds, p) == reds[p]

getDocumentPageCount(d) == IF fetched[d] THEN TextractResponse(d).pages ELSE 0

getDocumentKeyValuePairs(d) == IF fetched[d] THEN TextractResponse(d).pairs ELSE << >>

getPageWordsBySearch(d, page, query) ==
  IF fetched[d] /\ query # ""
  THEN LET Match(w) == w.pageNumber = page /\ w.text = query
           found == SelectSeq(TextractResponse(d).words, Match)
       IN [i \in 1 .. Len(found) |-> found[i].box]
  ELSE << >>

\* reducer of addRedactions(id, pageNumber, boxes): append to the page's entry,
\* which is created when the page has none
addRedactions(reds, d, page, boxes) ==
  [reds EXCEPT ![d][page] = [has |-> TRUE, boxes |-> reds[d][page].boxes \o boxes]]

\* reducer of clearRedactions(id): no page of the document keeps a box
clearRedactions(reds, d) ==
  [reds EXCEPT ![d] = IF clearForm = "removed"
                      THEN NoRedactions
                      ELSE [p \in AllPages |->
                              IF reds[d][p].has THEN [has |-> TRUE, boxes |-> << >>] ELSE Absent]]

(* -------------------------- derived view data ------------------------- *)
isDocumentFetched == fetched[id]

pageCount == getDocumentPageCount(id)

wordsMatchingSearch == getPageWordsBySearch(id, currentPageNumber, searchQuery)

docDataPairs == getDocumentKeyValuePairs(id)

pageDataPairs ==
  LET OnPage(d) == d.pageNumber = currentPageNumber
  IN SelectSeq(docDataPairs, OnPage)

(* ---------------------------- view instances -------------------------- *)
\* An instance of the view lives from its mount until it is unmounted and no
\* promise callback refers to it any more; at most one instance is mounted,
\* and each other one is kept alive by a fetchDocument call in flight.
InstIds == 1 .. (MaxPending + 1)

NoView == [alive |-> FALSE, isMounted |-> FALSE, status |-> "", atUnmount |-> ""]

\* the instance that is mounted, if any
MountedIds == { i \in InstIds : views[i].alive /\ views[i].isMounted }

Mounted == MountedIds # {}

inst == CHOOSE i \in MountedIds : TRUE

status == views[inst].status

\* The render of the success block throws: documentName.split('/') at line 268
\* dereferences undefined when the store has no entry for document d, the
\* document prop then being {} by defaultProps.
renderThrows(st, d, store) == st = "success" /\ ~store[d]

\* the view renders its tabs, lists and buttons only when status is 'success',
\* and only when that render does not throw
Rendered == Mounted /\ status = "success" /\ ~renderThrows(status, id, inStore)

\* instance i is torn down: the cleanup of the hook's second effect runs
teardown(vs, i) == [vs EXCEPT ![i].isMounted = FALSE, ![i].atUnmount = vs[i].status]

\* the 'Clear Redaction' and 'Download Redacted Version' buttons are shown
RedactionButtonsShown ==
  Rendered /\ track = "redaction" /\ RedactionKeys(redactions[id]) # {}

\* instances no callback can reach any more are dropped
Collect(vs, pend) ==
  [i \in InstIds |->
     IF vs[i].alive /\ ~vs[i].isMounted /\ ~(\E f \in BagToSet(pend) : f.inst = i)
     THEN NoView ELSE vs[i]]

\* no export has produced anything
NoOut == [done |-> FALSE, fault |-> FALSE, width |-> 0, height |-> 0, rects |-> << >>, name |-> << >>]

NoOp ==
  [op |-> "init", doc |-> "A", page |-> 0, arg |-> {}, boxes |-> << >>,
   query |-> "", before |-> NoRedactions, out |-> NoOut, view |-> NoView]

\* The record of an operation: its name, the document and the page it acts on,
\* its argument, the boxes it dispatched, the search query and the document's
\* redactions before it, what it exported, and the instance a callback ran for.
Op(name, d, page, arg, boxes, out, view) ==
  [op |-> name, doc |-> d, page |-> page, arg |-> arg, boxes |-> boxes,
   query |-> searchQuery, before |-> redactions[d], out |-> out, view |-> view]

(* -------------------------- useFetchDocument -------------------------- *)
\* setStatus(s) without the guard on the isMounted ref
setStatusUnguarded(vs, i, s) == [vs EXCEPT ![i].status = s]

\* isMounted.current && setStatus(s), run by a closure of instance i
setStatusIfMounted(vs, i, s) ==
  IF vs[i].isMounted THEN [vs EXCEPT ![i].status = s] ELSE vs

\* the fetch effect of instance i for document d: the status it commits
fetchEffectStatus(d) == IF ~fetched[d] THEN "pending" ELSE "success"

\* the fetch effect of instance i for document d: the fetchDocument call it issues
fetchEffectPending(i, d) ==
  IF ~fetched[d] THEN pending (+) SetToBag({[inst |-> i, id |-> d]}) ELSE pending

\* the cap on calls in flight leaves room for the call the effect would issue
RoomToFetch(d) == fetched[d] \/ BagCardinality(pending) < MaxPending

(* ------------------------- effects of the view ------------------------ *)
\* a mount that leaves the page number of the store as it is
mountPageNumberKept(current) == current

\* "Reset currentPageNumber on mount": the page number the mount effect dispatches
mountPageNumber(current) == 1

\* a cleanup that clears the document of the new render instead
cleanupRedactionsOfProp(reds, closureId, propId) == clearRedactions(reds, propId)

\* cleanup of the [dispatch, id] effect: the closure's id is the id of the
\* render that installed the effect
cleanupRedactions(reds, closureId, propId) == clearRedactions(reds, closureId)

\* Before any fetch the store may hold a document's metadata (from a document
\* list loaded earlier) or no entry for it at all.
Init ==
  /\ views = [i \in InstIds |-> NoView]
  /\ id = "A"
  /\ inStore \in [Docs -> BOOLEAN]
  /\ fetched = [d \in Docs |-> FALSE]
  /\ redactions = [d \in Docs |-> NoRedactions]
  /\ clearForm \in ClearForms
  /\ currentPageNumber = 1
  /\ searchQuery = ""
  /\ track = "search"
  /\ pending = EmptyBag
  /\ blobTasks = EmptyBag
  /\ lastOp = NoOp

\* the page is opened for document d: first render, then the effects in order
Mount(d) ==
  /\ ~Mounted
  /\ RoomToFetch(d)
  /\ LET i == CHOOSE j \in InstIds : ~views[j].alive /\ \A k \in InstIds : ~views[k].alive => j <= k
         created == [views EXCEPT ![i] = [alive |-> TRUE, isMounted |-> TRUE, status |-> "", atUnmount |-> ""]]
     IN /\ views' = setStatusIfMounted(created, i, fetchEffectStatus(d))
        /\ pending' = fetchEffectPending(i, d)
  /\ id' = d
  /\ currentPageNumber' = mountPageNumber(currentPageNumber)
  /\ lastOp' = Op("mount", d, currentPageNumber, {}, << >>, NoOut, NoView)
  /\ UNCHANGED << clearForm, inStore, fetched, redactions, searchQuery, track, blobTasks >>

\* the page is left: the cleanups of the effects run
Unmount ==
  /\ Mounted
  /\ views' = Collect(teardown(views, inst), pending)
  /\ redactions' = cleanupRedactions(redactions, id, id)
  /\ lastOp' = Op("unmount", id, currentPageNumber, {}, << >>, NoOut, NoView)
  /\ UNCHANGED << clearForm, id, inStore, fetched, currentPageNumber, searchQuery, track, pending, blobTasks >>

\* The id query parameter changes under the mounted view. The view first
\* renders with the status it had and the document of the new id. When that
\* render throws, React tears the view down: the cleanups of the effects
\* committed before run (clearRedactions with the previous id, isMounted set
\* to false) and no effect of the new render does. Otherwise the effects that
\* depend on id are cleaned up and run again.
ChangeId(d) ==
  /\ Mounted
  /\ d # id
  /\ redactions' = cleanupRedactions(redactions, id, d)
  /\ IF renderThrows(status, d, inStore)
     THEN /\ views' = Collect(teardown(views, inst), pending)
          /\ pending' = pending
     ELSE /\ RoomToFetch(d)
          /\ views' = setStatusIfMounted(views, inst, fetchEffectStatus(d))
          /\ pending' = fetchEffectPending(inst, d)
  /\ id' = d
  /\ lastOp' = Op("changeId", id, currentPageNumber, {}, << >>, NoOut, NoView)
  /\ UNCHANGED << clearForm, inStore, fetched, currentPageNumber, searchQuery, track, blobTasks >>

\* a fetchDocument(f.id) call of instance f.inst resolves: the store holds the
\* document, the .then callback runs, and a mounted view showing f.id sees
\* isDocumentFetched turn true and runs its fetch effect again. A view that
\* shows another id renders with the status the callback set and the document
\* of its own id: when that render throws, React tears the view down.
FetchResolved(f) ==
  /\ BagIn(f, pending)
  /\ pending' = pending (-) SetToBag({f})
  /\ inStore' = [inStore EXCEPT ![f.id] = TRUE]
  /\ fetched' = [fetched EXCEPT ![f.id] = TRUE]
  /\ LET committed == setStatusIfMounted(views, f.inst, "success")
         rerun == IF Mounted /\ id = f.id /\ ~fetched[f.id]
                  THEN setStatusIfMounted(committed, inst, "success")
                  ELSE committed
         thrown == Mounted /\ renderThrows(rerun[inst].status, id, inStore')
         final == IF thrown THEN teardown(rerun, inst) ELSE rerun
     IN /\ views' = Collect(final, pending')
        /\ redactions' = IF thrown THEN cleanupRedactions(redactions, id, id) ELSE redactions
        /\ lastOp' = Op("fetchResolved", f.id, currentPageNumber, {}, << >>, NoOut, final[f.inst])
  /\ UNCHANGED << clearForm, id, currentPageNumber, searchQuery, track, blobTasks >>

\* a fetchDocument(f.id) call of instance f.inst rejects: the .catch callback runs
FetchRejected(f) ==
  /\ BagIn(f, pending)
  /\ pending' = pending (-) SetToBag({f})
  /\ LET committed == setStatusIfMounted(views, f.inst, "error")
     IN /\ views' = Collect(committed, pending')
        /\ lastOp' = Op("fetchRejected", f.id, currentPageNumber, {}, << >>, NoOut, committed[f.inst])
  /\ UNCHANGED << clearForm, id, inStore, fetched, redactions, currentPageNumber, searchQuery, track, blobTasks >>

\* the track is chosen outside this view
SelectTrack(t) ==
  /\ ~Mounted
  /\ t # track
  /\ track' = t
  /\ lastOp' = Op("selectTrack", id, currentPageNumber, {}, << >>, NoOut, NoView)
  /\ UNCHANGED << clearForm, views, id, inStore, fetched, redactions, currentPageNumber, searchQuery, pending, blobTasks >>

(* ------------------------- user interactions -------------------------- *)
\* the search bar stores the query typed
SetSearchQuery(q) ==
  /\ Rendered
  /\ q # searchQuery
  /\ searchQuery' = q
  /\ lastOp' = Op("setSearchQuery", id, currentPageNumber, {}, << >>, NoOut, NoView)
  /\ UNCHANGED << clearForm, views, id, inStore, fetched, redactions, currentPageNumber, track, pending, blobTasks >>

\* a list item of the key-value list or the raw-text list asks for its page
switchPage(pageNumber) ==
  /\ Rendered
  /\ currentPageNumber' = pageNumber
  /\ lastOp' = Op("switchPage", id, pageNumber, {}, << >>, NoOut, NoView)
  /\ UNCHANGED << clearForm, views, id, inStore, fetched, redactions, searchQuery, track, pending, blobTasks >>

\* room for n more boxes in the list of a page
RoomToRedact(page, n) == Len(redactions[id][page].boxes) + n <= MaxReds

\* a redact that ignores the page it is given
redactPageCurrent(given) == currentPageNumber

\* pageNumber = currentPageNumber when the caller passes no page; given is {} or {page}
redactPage(given) == IF given = {} THEN currentPageNumber ELSE CHOOSE p \in given : TRUE

redact(bbox, given) ==
  /\ Rendered
  /\ track = "redaction"
  /\ RoomToRedact(redactPage(given), 1)
  /\ redactions' = addRedactions(redactions, id, redactPage(given), << bbox >>)
  /\ lastOp' = Op("redact", id, redactPage(given), given, << bbox >>, NoOut, NoView)
  /\ UNCHANGED << clearForm, views, id, inStore, fetched, currentPageNumber, searchQuery, track, pending, blobTasks >>

\* a redactMatches that leaves the search query in place
redactMatchesKeepingQuery ==
  /\ Rendered
  /\ track = "redaction"
  /\ RoomToRedact(currentPageNumber, Len(wordsMatchingSearch))
  /\ redactions' = addRedactions(redactions, id, currentPageNumber, wordsMatchingSearch)
  /\ lastOp' = Op("redactMatches", id, currentPageNumber, {}, wordsMatchingSearch, NoOut, NoView)
  /\ UNCHANGED << clearForm, views, id, inStore, fetched, currentPageNumber, searchQuery, track, pending, blobTasks >>

redactMatches ==
  /\ Rendered
  /\ track = "redaction"
  /\ RoomToRedact(currentPageNumber, Len(wordsMatchingSearch))
  /\ redactions' = addRedactions(redactions, id, currentPageNumber, wordsMatchingSearch)
  /\ searchQuery' = ""
  /\ lastOp' = Op("redactMatches", id, currentPageNumber, {}, wordsMatchingSearch, NoOut, NoView)
  /\ UNCHANGED << clearForm, views, id, inStore, fetched, currentPageNumber, track, pending, blobTasks >>

\* a map that takes the box of the key instead of the box of the value
pageKeyBoxes == [i \in 1 .. Len(pageDataPairs) |-> pageDataPairs[i].keyBoundingBox]

\* pageData.pairs.map(p => p.valueBoundingBox)
pageValueBoxes == [i \in 1 .. Len(pageDataPairs) |-> pageDataPairs[i].valueBoundingBox]

redactAllValues ==
  /\ Rendered
  /\ track = "redaction"
  /\ RoomToRedact(currentPageNumber, Len(pageValueBoxes))
  /\ redactions' = addRedactions(redactions, id, currentPageNumber, pageValueBoxes)
  /\ lastOp' = Op("redactAllValues", id, currentPageNumber, {}, pageValueBoxes, NoOut, NoView)
  /\ UNCHANGED << clearForm, views, id, inStore, fetched, currentPageNumber, searchQuery, track, pending, blobTasks >>

clearReds ==
  /\ RedactionButtonsShown
  /\ redactions' = clearRedactions(redactions, id)
  /\ lastOp' = Op("clearReds", id, currentPageNumber, {}, << >>, NoOut, NoView)
  /\ UNCHANGED << clearForm, views, id, inStore, fetched, currentPageNumber, searchQuery, track, pending, blobTasks >>

(* ---------------------------- raster export --------------------------- *)
\* cnv.width = theThing.naturalWidth || theThing.width, and the same for the height
canvasFor(theThing) ==
  [width |-> OrElse(theThing.naturalWidth, theThing.width),
   height |-> OrElse(theThing.naturalHeight, theThing.height)]

\* val * cnv.width and val * cnv.height: val in tenths, the product in tenths of a pixel
x(val, cnv) == val * cnv.width
y(val, cnv) == val * cnv.height

margin == 2

\* a fillRect that widens the box by one margin only
fillRectOneMargin(red, cnv) ==
  [x |-> x(red.Left, cnv) - margin * 10,
   y |-> y(red.Top, cnv) - margin * 10,
   w |-> x(red.Width, cnv) + margin * 10,
   h |-> y(red.Height, cnv) + margin * 10]

\* the arguments of ctx.fillRect for one redaction, in tenths of a pixel
fillRect(red, cnv) ==
  [x |-> x(red.Left, cnv) - margin * 10,
   y |-> y(red.Top, cnv) - margin * 10,
   w |-> x(red.Width, cnv) + 2 * margin * 10,
   h |-> y(red.Height, cnv) + 2 * margin * 10]

RECURSIVE lastSegment(_)
\* name.split('/').pop()
lastSegment(name) ==
  IF \E i \in 1 .. Len(name) : name[i] = "/"
  THEN lastSegment(Tail(name))
  ELSE name

\* file.replace(/\.[^.]+$/, '-REDACTED.png'): the regular expression matches a final
\* '.' followed by a part without '.', and a name without such an ending is kept
replaceExtension(file) ==
  IF Len(file) >= 2 /\ file[Len(file) - 1] = "." /\ Last(file) # "."
  THEN SubSeq(file, 1, Len(file) - 2) \o << "-REDACTED.png" >>
  ELSE file

\* the export faulted: nothing is downloaded
Faulted == [done |-> FALSE, fault |-> TRUE, width |-> 0, height |-> 0, rects |-> << >>, name |-> << >>]

\* The canvas downloadRedacted has filled when it calls cnv.toBlob, with what
\* the callback's closure holds: the page surface, the boxes of the current
\* page's entry (Object.values), the document and its objectName.
canvasTask(theThing) ==
  LET cnv == canvasFor(theThing)
      entry == ReadRedactions(redactions[id], currentPageNumber)
  IN [thing |-> theThing, doc |-> id, boxes |-> entry.boxes,
      width |-> cnv.width, height |-> cnv.height,
      rects |-> [i \in 1 .. Len(entry.boxes) |-> fillRect(entry.boxes[i], cnv)],
      objectName |-> ObjectName(id)]

\* the canvas after the fillRect calls, nothing downloaded yet
canvasOut(task) ==
  [done |-> FALSE, fault |-> FALSE, width |-> task.width, height |-> task.height,
   rects |-> task.rects, name |-> << >>]

\* room for the toBlob callback the export would leave to run
RoomToExport == BagCardinality(blobTasks) < MaxBlobs

\* The click on 'Download Redacted Version', up to the call of cnv.toBlob.
\* Object.values(document.redactions[currentPageNumber]) throws a TypeError when
\* the page has no entry: the async callback rejects, toBlob is never called
\* and nothing is downloaded.
downloadRedacted(theThing) ==
  /\ RedactionButtonsShown
  /\ IF ~ReadRedactions(redactions[id], currentPageNumber).has
     THEN /\ blobTasks' = blobTasks
          /\ lastOp' = Op("downloadRedacted", id, currentPageNumber, theThing, << >>, Faulted, NoView)
     ELSE /\ RoomToExport
          /\ blobTasks' = blobTasks (+) SetToBag({canvasTask(theThing)})
          /\ lastOp' = Op("downloadRedacted", id, currentPageNumber, theThing, << >>,
                          canvasOut(canvasTask(theThing)), NoView)
  /\ UNCHANGED << clearForm, views, id, inStore, fetched, redactions, currentPageNumber, searchQuery, track, pending >>

\* what the toBlob callback downloads: the canvas under the name made from the
\* closure's document.objectName; objectName.split throws when it is undefined
toBlobOut(task) ==
  IF ~task.objectName.has
  THEN Faulted
  ELSE [done |-> TRUE, fault |-> FALSE, width |-> task.width, height |-> task.height,
        rects |-> task.rects, name |-> replaceExtension(lastSegment(task.objectName.name))]

\* the callback of cnv.toBlob runs in a later task, whatever the view does meanwhile
toBlobCallback(task) ==
  /\ BagIn(task, blobTasks)
  /\ blobTasks' = blobTasks (-) SetToBag({task})
  /\ lastOp' = Op("toBlobCallback", task.doc, currentPageNumber, task, << >>, toBlobOut(task), NoView)
  /\ UNCHANGED << clearForm, views, id, inStore, fetched, redactions, currentPageNumber, searchQuery, track, pending >>

(* --------------------------- specifications --------------------------- *)
Next ==
  \/ \E d \in Docs : Mount(d)
  \/ Unmount
  \/ \E d \in Docs : ChangeId(d)
  \/ \E f \in BagToSet(pending) : FetchResolved(f)
  \/ \E f \in BagToSet(pending) : FetchRejected(f)
  \/ \E t \in Tracks : SelectTrack(t)
  \/ \E q \in Queries : SetSearchQuery(q)
  \/ \E p \in 1 .. pageCount : switchPage(p)
  \/ \E bbox \in Boxes, given \in {{}} \cup {{p} : p \in 1 .. pageCount} : redact(bbox, given)
  \/ redactMatches
  \/ redactAllValues
  \/ clearReds
  \/ \E theThing \in Surfaces : downloadRedacted(theThing)
  \/ \E task \in BagToSet(blobTasks) : toBlobCallback(task)

\* the whole view
Spec == Init /\ [][Next]_vars

\* The life cycle of the view and its fetches: mounting, unmounting, changes of
\* id, the settling of fetchDocument calls and page switches.
NextFetch ==
  \/ \E d \in Docs : Mount(d)
  \/ Unmount
  \/ \E d \in Docs : ChangeId(d)
  \/ \E f \in BagToSet(pending) : FetchResolved(f)
  \/ \E f \in BagToSet(pending) : FetchRejected(f)
  \/ \E p \in 1 .. pageCount : switchPage(p)

SpecFetch == Init /\ [][NextFetch]_vars

\* The redaction work of a session in which both documents were fetched on an
\* earlier visit, so that no fetchDocument call is issued any more. The export
\* writes none of the variables the redaction operations read.
InitFetched ==
  /\ views = [i \in InstIds |-> NoView]
  /\ id = "A"
  /\ inStore = [d \in Docs |-> TRUE]
  /\ fetched = [d \in Docs |-> TRUE]
  /\ redactions = [d \in Docs |-> NoRedactions]
  /\ clearForm \in ClearForms
  /\ currentPageNumber \in AllPages
  /\ searchQuery = ""
  /\ track = "search"
  /\ pending = EmptyBag
  /\ blobTasks = EmptyBag
  /\ lastOp = NoOp

NextRedact ==
  \/ \E d \in Docs : Mount(d)
  \/ Unmount
  \/ \E d \in Docs : ChangeId(d)
  \/ \E t \in Tracks : SelectTrack(t)
  \/ \E q \in Queries : SetSearchQuery(q)
  \/ \E p \in 1 .. pageCount : switchPage(p)
  \/ \E bbox \in Boxes, given \in {{}} \cup {{p} : p \in 1 .. pageCount} : redact(bbox, given)
  \/ redactMatches
  \/ redactAllValues
  \/ clearReds

SpecRedact == InitFetched /\ [][NextRedact]_vars

\* The exports of such a session: the view's life cycle, the redactions made
\* from the key-value pairs (a page without pairs gets an empty entry), and the
\* two steps of each export, which reads the entry however it was made.
NextExport ==
  \/ \E d \in Docs : Mount(d)
  \/ Unmount
  \/ \E d \in Docs : ChangeId(d)
  \/ \E t \in Tracks : SelectTrack(t)
  \/ \E p \in 1 .. pageCount : switchPage(p)
  \/ redactAllValues
  \/ clearReds
  \/ \E theThing \in Surfaces : downloadRedacted(theThing)
  \/ \E task \in BagToSet(blobTasks) : toBlobCallback(task)

SpecExport == InitFetched /\ [][NextExport]_vars

(* ------------------------------ properties ---------------------------- *)
ClearOps == {"clearReds", "unmount", "changeId"}
RedactOps == {"redact", "redactMatches", "redactAllValues"}
SettleOps == {"fetchResolved", "fetchRejected"}

\* the boxes a read of a page holds: those of its entry, none when it is undefined
BoxesOf(read) == IF read.has THEN read.boxes ELSE << >>

\* every read of the RedactionSet of a page holds no box
AllEmpty(reds) == \A p \in AllPages : BoxesOf(ReadRedactions(reds, p)) = << >>

\* the intrinsic size of a page surface: the natural size of an image, the
\* bitmap size of a canvas
IntrinsicSize(theThing) ==
  IF theThing.tag = "img"
  THEN [width |-> theThing.naturalWidth, height |-> theThing.naturalHeight]
  ELSE [width |-> theThing.width, height |-> theThing.height]

\* C1: whenever the raster export is invoked it does not fault and leaves its
\* canvas to be downloaded, every canvas is downloaded when its callback runs,
\* and for a page without redaction boxes the download is an unmodified copy
\* of the page at the page surface's intrinsic size.
C1_ExportNeverFaults ==
  /\ lastOp.op = "downloadRedacted" =>
       /\ ~lastOp.out.fault
       /\ BagCardinality(blobTasks) > 0
  /\ lastOp.op = "toBlobCallback" =>
       /\ lastOp.out.done
       /\ lastOp.arg.boxes = << >> =>
            /\ lastOp.out.rects = << >>
            /\ lastOp.out.width = IntrinsicSize(lastOp.arg.thing).width
            /\ lastOp.out.height = IntrinsicSize(lastOp.arg.thing).height

\* C2: the status of an instance of the view that has been torn down stays what
\* it was at the unmount, also right after a fetchDocument call of that
\* instance resolves or rejects.
C2_NoCommitAfterTeardown ==
  /\ \A i \in InstIds :
       views[i].alive /\ ~views[i].isMounted => views[i].status = views[i].atUnmount
  /\ (lastOp.op \in SettleOps /\ ~lastOp.view.isMounted) =>
       lastOp.view.status = lastOp.view.atUnmount

\* a fetchDocument call resolved after its view was torn down while pending
C2_Witness ==
  /\ lastOp.op = "fetchResolved"
  /\ lastOp.view.alive
  /\ ~lastOp.view.isMounted
  /\ lastOp.view.status = "pending"

\* C3: after a clear of a document's redactions, by the 'Clear Redaction'
\* button, by the unmount or by a change of id (for the previous id), the read
\* of every page of that document holds no box, and a document whose pages all
\* read without a box keeps reading so across every step that is not a redact
\* operation on it.
C3_ClearedReadsEmpty ==
  /\ [](lastOp.op \in ClearOps => AllEmpty(redactions[lastOp.doc]))
  /\ [][\A d \in Docs :
          (AllEmpty(redactions[d]) /\ ~(lastOp'.op \in RedactOps /\ lastOp'.doc = d))
            => AllEmpty(redactions'[d])]_vars

\* a change of id cleared a previous document that had redaction boxes
C3_Witness ==
  /\ lastOp.op = "changeId"
  /\ ~AllEmpty(lastOp.before)
  /\ lastOp.doc # id

\* the page redact(box, p) is meant to act on: p, or the current page without p
C4_Target == IF lastOp.arg = {} THEN currentPageNumber ELSE CHOOSE p \in lastOp.arg : TRUE

\* C4: redact(box, p) leaves page p (the current page when p is omitted) with
\* an entry whose boxes are those the page held before with box appended, and
\* every other page as it was.
C4_RedactAppendsOne ==
  lastOp.op = "redact" =>
    /\ Len(lastOp.boxes) = 1
    /\ ReadRedactions(redactions[lastOp.doc], C4_Target).has
    /\ ReadRedactions(redactions[lastOp.doc], C4_Target).boxes
         = Append(BoxesOf(ReadRedactions(lastOp.before, C4_Target)), lastOp.boxes[1])
    /\ \A p \in AllPages \ {C4_Target} :
         ReadRedactions(redactions[lastOp.doc], p) = ReadRedactions(lastOp.before, p)

\* a box already in the list of a page other than the current one was added again
C4_Witness ==
  /\ lastOp.op = "redact"
  /\ lastOp.arg # {}
  /\ C4_Target # currentPageNumber
  /\ \E i \in 1 .. Len(BoxesOf(ReadRedactions(lastOp.before, C4_Target))) :
       BoxesOf(ReadRedactions(lastOp.before, C4_Target))[i] = lastOp.boxes[1]

\* C5: redactMatches leaves the current page with an entry whose boxes are
\* those the page held before followed by the matches of the query that was
\* active, in order, and the search query empty; on page 1 of the fetched
\* document A with the query "foo" the matches are BoxA then BoxB.
C5_RedactMatches ==
  lastOp.op = "redactMatches" =>
    LET matches == getPageWordsBySearch(lastOp.doc, currentPageNumber, lastOp.query)
    IN /\ ReadRedactions(redactions[lastOp.doc], currentPageNumber).has
       /\ ReadRedactions(redactions[lastOp.doc], currentPageNumber).boxes
            = BoxesOf(ReadRedactions(lastOp.before, currentPageNumber)) \o matches
       /\ searchQuery = ""
       /\ (lastOp.doc = "A" /\ fetched["A"] /\ currentPageNumber = 1 /\ lastOp.query = "foo")
            => matches = << BoxA, BoxB >>

\* the two matches of "foo" on page 1 of document A were redacted
C5_Witness ==
  /\ lastOp.op = "redactMatches"
  /\ lastOp.query = "foo"
  /\ ReadRedactions(redactions["A"], 1) = [has |-> TRUE, boxes |-> << BoxA, BoxB >>]
  /\ searchQuery = ""

RECURSIVE C6_ValueBoxes(_, _)
\* the valueBoundingBox of the pairs of a page, in the pairs' order
C6_ValueBoxes(pairs, page) ==
  IF pairs = << >> THEN << >>
  ELSE (IF Head(pairs).pageNumber = page THEN << Head(pairs).valueBoundingBox >> ELSE << >>)
         \o C6_ValueBoxes(Tail(pairs), page)

\* C6: redactAllValues leaves the current page with an entry whose boxes are
\* those the page held before followed by the valueBoundingBox of each of the
\* document's key-value pairs whose pageNumber is the current page, in the
\* pairs' order, and every other page as it was.
C6_RedactAllValues ==
  lastOp.op = "redactAllValues" =>
    /\ ReadRedactions(redactions[lastOp.doc], currentPageNumber).has
    /\ ReadRedactions(redactions[lastOp.doc], currentPageNumber).boxes
         = BoxesOf(ReadRedactions(lastOp.before, currentPageNumber))
             \o C6_ValueBoxes(getDocumentKeyValuePairs(lastOp.doc), currentPageNumber)
    /\ \A p \in AllPages \ {currentPageNumber} :
         ReadRedactions(redactions[lastOp.doc], p) = ReadRedactions(lastOp.before, p)

\* the values of the two pairs of page 1 of document A were redacted
C6_Witness ==
  /\ lastOp.op = "redactAllValues"
  /\ lastOp.doc = "A"
  /\ currentPageNumber = 1
  /\ ReadRedactions(redactions["A"], 1) = [has |-> TRUE, boxes |-> << BoxA, BoxB >>]

\* a surface of the intrinsic size of theThing with, for each box in order, the
\* rectangle of left edge left*W - 2, top edge top*H - 2, width width*W + 4 and
\* height height*H + 4, in tenths of a pixel
C7_Geometry(theThing, boxes, out) ==
  LET W == IntrinsicSize(theThing).width
      H == IntrinsicSize(theThing).height
  IN /\ out.width = W
     /\ out.height = H
     /\ Len(out.rects) = Len(boxes)
     /\ \A i \in 1 .. Len(boxes) :
          /\ out.rects[i].x = boxes[i].Left * W - 20
          /\ out.rects[i].y = boxes[i].Top * H - 20
          /\ out.rects[i].w = boxes[i].Width * W + 40
          /\ out.rects[i].h = boxes[i].Height * H + 40
          /\ (W = 800 /\ H = 600 /\ boxes[i] = BoxA) =>
               /\ out.rects[i].x = 780 /\ out.rects[i].x + out.rects[i].w = 2420
               /\ out.rects[i].y = 580 /\ out.rects[i].y + out.rects[i].h = 1220

\* C7: the canvas an export has filled, and the image its callback downloads
\* later, have the page surface's intrinsic size and, for each box the current
\* page held at the click, in order, the rectangle of left edge left*W - 2, top
\* edge top*H - 2, width width*W + 4 and height height*H + 4; for an 800 by 600
\* surface and the box (0.1, 0.1, 0.2, 0.1) the rectangle spans x from 78 to
\* 242 and y from 58 to 122.
C7_ExportGeometry ==
  /\ (lastOp.op = "downloadRedacted" /\ ~lastOp.out.fault) =>
       C7_Geometry(lastOp.arg, BoxesOf(ReadRedactions(lastOp.before, lastOp.page)), lastOp.out)
  /\ (lastOp.op = "toBlobCallback" /\ lastOp.out.done) =>
       C7_Geometry(lastOp.arg.thing, lastOp.arg.boxes, lastOp.out)

\* the 800 by 600 page of document A with the box (0.1, 0.1, 0.2, 0.1) first
\* was downloaded after the view had moved on to document B
C7_Witness ==
  /\ lastOp.op = "toBlobCallback"
  /\ lastOp.out.done
  /\ lastOp.out.width = 800
  /\ lastOp.out.height = 600
  /\ lastOp.arg.boxes = << BoxA, BoxB >>
  /\ lastOp.out.rects[1] = [x |-> 780, y |-> 580, w |-> 1640, h |-> 640]
  /\ lastOp.arg.doc = "A"
  /\ id = "B"

\* C8: right after a mount the current page number is 1.
C8_MountResetsPage == lastOp.op = "mount" => currentPageNumber = 1

\* the view was mounted for a document not fetched yet while the store held page 2
C8_Witness ==
  /\ lastOp.op = "mount"
  /\ lastOp.page = 2
  /\ ~fetched[id]

\* C9: while the view is mounted and its document is fetched, the current page
\* number lies between 1 and the document's page count.
C9_PageInRange ==
  (Mounted /\ isDocumentFetched) =>
    (1 <= currentPageNumber /\ currentPageNumber <= pageCount)

\* C10: while the view is mounted its status is 'success' only if the document
\* of the current id is fetched, and the settling of a fetch for another id
\* leaves the status 'pending' while the fetch for the current id is pending.
C10_SuccessOnlyIfFetched ==
  Mounted =>
    /\ status = "success" => isDocumentFetched
    /\ (lastOp.op \in SettleOps /\ lastOp.doc # id /\ ~isDocumentFetched
          /\ BagIn([inst |-> inst, id |-> id], pending))
         => status = "pending"

\* a view that shows its success block has a document to show
RenderedHasDocument == (Mounted /\ status = "success") => inStore[id]

====
